---- MODULE Spec2Model ----
(***************************************************************************)
(* Model of the signature-engine backend (src/server.js, src/models/       *)
(* Audit.js): the upload and finalize handlers, the geometry of the field  *)
(* overlays and the audit store.                                           *)
(*                                                                         *)
(* JavaScript numbers are binary floating-point values.  They are modelled *)
(* as binary floating-point values of Prec significant bits (a double has  *)
(* 53), rounded to nearest, ties to even, with an unbounded exponent: a    *)
(* value is <<m, e>>, meaning m * 2^e, with m odd or <<0, 0>>.              *)
(***************************************************************************)
EXTENDS Integers, Sequences, FiniteSets, TLC

\* ------------------------------------------------------------- bounds

\* Significant bits of a number (53 in the program's doubles).
Prec == 4
\* Field ratios are the numbers nearest k / RatioDen, k in 0..RatioDen.
RatioDen == 4
\* Image widths and heights are 1..MaxImg pixels.
MaxImg == 3
\* Finalize requests in flight together.
NumReq == 2
\* Length of a request's field list when requests run concurrently.
ConcFields == 1
\* Length of a request's field list when one request runs alone.
SeqFields == 3
\* Uploads handled.
MaxUploads == 2
\* Milliseconds the wall clock advances.
MaxClock == 1

\* ------------------------------------------------- floating-point numbers

Pow2(n) == 2 ^ n

RECURSIVE Norm(_, _)
\* The canonical pair of m * 2^e.
Norm(m, e) ==
    IF m = 0 THEN <<0, 0>>
    ELSE IF m % 2 = 0 THEN Norm(m \div 2, e + 1)
    ELSE <<m, e>>

\* The rational <<n, d>> (d > 0) a floating-point value stands for.
RatOf(x) == IF x[2] >= 0 THEN <<x[1] * Pow2(x[2]), 1>> ELSE <<x[1], Pow2(-x[2])>>

RLeq(a, b) == a[1] * b[2] <= b[1] * a[2]
RLt(a, b) == a[1] * b[2] < b[1] * a[2]
REq(a, b) == a[1] * b[2] = b[1] * a[2]
RMul(a, b) == <<a[1] * b[1], a[2] * b[2]>>
RSub(a, b) == <<a[1] * b[2] - b[1] * a[2], a[2] * b[2]>>
RAdd(a, b) == <<a[1] * b[2] + b[1] * a[2], a[2] * b[2]>>
RAbs(a) == IF a[1] < 0 THEN <<-a[1], a[2]>> ELSE a

\* a / (d * 2^e) as a fraction of integers.
Scaled(a, d, e) == IF e >= 0 THEN <<a, d * Pow2(e)>> ELSE <<a * Pow2(-e), d>>

RECURSIVE FindExp(_, _, _)
\* The exponent e with 2^(Prec-1) <= a / (d * 2^e) < 2^Prec, for a, d > 0.
FindExp(a, d, e) ==
    LET s == Scaled(a, d, e)
    IN  IF s[1] >= Pow2(Prec) * s[2] THEN FindExp(a, d, e + 1)
        ELSE IF s[1] < Pow2(Prec - 1) * s[2] THEN FindExp(a, d, e - 1)
        ELSE e

\* a / d > 0 rounded to Prec significant bits, to nearest, ties to even.
RoundPos(a, d) ==
    LET e == FindExp(a, d, 0)
        s == Scaled(a, d, e)
        q == s[1] \div s[2]
        r == s[1] % s[2]
        up == 2 * r > s[2] \/ (2 * r = s[2] /\ q % 2 = 1)
    IN  Norm(IF up THEN q + 1 ELSE q, e)

\* The floating-point value nearest the rational q.
Fl(q) ==
    IF q[1] = 0 THEN <<0, 0>>
    ELSE IF q[1] > 0 THEN RoundPos(q[1], q[2])
    ELSE LET p == RoundPos(-q[1], q[2]) IN <<-p[1], p[2]>>

\* The arithmetic of the program's numbers: each operation rounds once.
FMul(x, y) == Fl(RMul(RatOf(x), RatOf(y)))
FSub(x, y) == Fl(RSub(RatOf(x), RatOf(y)))
FAdd(x, y) == Fl(RAdd(RatOf(x), RatOf(y)))
FDiv(x, y) == LET a == RatOf(x) b == RatOf(y) IN Fl(<<a[1] * b[2], a[2] * b[1]>>)
FMin(x, y) == IF RLeq(RatOf(x), RatOf(y)) THEN x ELSE y
FInt(n) == Fl(<<n, 1>>)

\* The literal 0.35 of the text baseline, as the program's number.
BaselineBias == Fl(<<35, 100>>)

\* ----------------------------------------------------------- geometry

\* Resolve without the flip of the y axis.
ResolveNoFlip(field, width, height) ==
    [x |-> FMul(field.xRatio, width),
     y |-> FMul(field.yRatio, height),
     w |-> FMul(field.wRatio, width),
     h |-> FMul(field.hRatio, height)]

\* The rectangle of a field on a page of the given size.
Resolve(field, width, height) ==
    [x |-> FMul(field.xRatio, width),
     y |-> FSub(FSub(height, FMul(field.yRatio, height)), FMul(field.hRatio, height)),
     w |-> FMul(field.wRatio, width),
     h |-> FMul(field.hRatio, height)]

\* page.drawText(field.value, {x, y: y + h * 0.35, size: 11, color: black}).
DrawText(field, rect) ==
    [op |-> "text", text |-> field.value.text,
     x |-> rect.x, y |-> FAdd(rect.y, FMul(rect.h, BaselineBias)),
     width |-> <<0, 0>>, height |-> <<0, 0>>]

\* FitScale with the larger of the two ratios: the image fills the rectangle.
FitScaleFill(rect, img) ==
    LET a == FDiv(rect.w, FInt(img.width))
        b == FDiv(rect.h, FInt(img.height))
    IN  IF RLeq(RatOf(a), RatOf(b)) THEN b ELSE a

\* The one scale of an embedded image in a rectangle.
FitScale(rect, img) ==
    FMin(FDiv(rect.w, FInt(img.width)), FDiv(rect.h, FInt(img.height)))

\* page.drawImage(img, {x, y, width, height}): aspect-fit and centred.
DrawImage(rect, img) ==
    LET scale == FitScale(rect, img)
        drawW == FMul(FInt(img.width), scale)
        drawH == FMul(FInt(img.height), scale)
    IN  [op |-> "image", text |-> "",
         x |-> FAdd(rect.x, FDiv(FSub(rect.w, drawW), FInt(2))),
         y |-> FAdd(rect.y, FDiv(FSub(rect.h, drawH), FInt(2))),
         width |-> drawW, height |-> drawH]

\* ------------------------------------------------------ values and files

\* The ratio k / RatioDen, as the program's number.
Ratio(k) == Fl(<<k, RatioDen>>)
RatioSet == {Ratio(k) : k \in 0..RatioDen}

\* Decoded image bytes: a PNG or JPEG of some size, or bytes that are neither.
Image(fmt, width, height) == [fmt |-> fmt, width |-> width, height |-> height]
NoImage == Image("junk", 0, 0)

\* A field's value: a string.  text is "" exactly for the empty string; mime is
\* the <mime> of a leading data:image/<mime>;base64, ("none" without one) and
\* data is what the base64 text after it decodes to.
TextValue(s) == [text |-> s, mime |-> "none", data |-> NoImage]
DataUri(mime, img) == [text |-> "data:image", mime |-> mime, data |-> img]

Field(page, type, value, xr, yr, wr, hr) ==
    [page |-> page, type |-> type, value |-> value,
     xRatio |-> xr, yRatio |-> yr, wRatio |-> wr, hRatio |-> hr]

\* A page size in points.
PageSize(w, h) == [width |-> FInt(w), height |-> FInt(h)]

\* File contents.  An uploaded buffer parses as a PDF of some pages or does not
\* parse; a finalized file is what save() serialized: the source document with
\* the drawing operations added.
Absent == [kind |-> "absent", valid |-> FALSE, pages |-> <<>>, ops |-> <<>>, name |-> ""]
Upload(name, pages) ==
    [kind |-> "upload", valid |-> pages # <<>>, pages |-> pages, ops |-> <<>>, name |-> name]
Serialize(bytes, ops) ==
    [kind |-> "saved", valid |-> TRUE, pages |-> bytes.pages, ops |-> ops, name |-> bytes.name]

PageSizes == {PageSize(5, 7), PageSize(6, 13)}
PdfA == Upload("A", <<PageSize(5, 7)>>)
PdfB == Upload("B", <<PageSize(5, 7), PageSize(6, 13)>>)
Junk == Upload("junk", <<>>)
Buffers == {PdfA, PdfB, Junk}

\* crypto.createHash("sha256").update(buffer).digest("hex"): the digest is
\* collision-free, and it is not the buffer.
sha256(buffer) == [sha256 |-> buffer.kind, name |-> buffer.name, ops |-> buffer.ops]
NoHash == [sha256 |-> "undefined", name |-> "", ops |-> <<>>]

\* Date.now().toString(): one id per millisecond of the wall clock.
PdfIds == 0..MaxClock

\* ---------------------------------------------------------------- state

VARIABLES
    workload,   \* the inputs of the run: requests, field lists, uploads
    clock,      \* Date.now(), in milliseconds
    uploads,    \* upload requests handled so far
    allocated,  \* history: the buffers of the uploads answered with each pdfId
    original,   \* uploads/original/<pdfId>.pdf
    signed,     \* uploads/signed/<pdfId>-final.pdf
    lastWriter, \* history: the request that last wrote each signed file
    audits,     \* the Audit collection, in insertion order
    req,        \* the finalize requests: handler position, locals, response
    geo         \* a field, a page and an image put through the geometry

vars == <<workload, clock, uploads, allocated, original, signed, lastWriter, audits, req, geo>>
server == <<workload, clock, uploads, allocated, original, signed, lastWriter, audits, req>>

NoBody == [originalHash |-> NoHash, finalHash |-> NoHash]

\* A request not yet received.  cause, wrote, auditId and pre are history: why
\* the call failed, whether it wrote the signed file, the record it created,
\* and the signed file and the collection as the call found them.
IdleReq ==
    [pc |-> "idle", pdfId |-> 0, fields |-> <<>>,
     originalBytes |-> Absent, originalHash |-> NoHash,
     pages |-> <<>>, ops |-> <<>>, idx |-> 0,
     finalPdf |-> Absent, finalHash |-> NoHash, createdAt |-> 0,
     status |-> 0, body |-> NoBody, cause |-> "",
     wrote |-> FALSE, auditId |-> 0,
     pre |-> [signed |-> Absent, audits |-> <<>>]]

Requests == 1..workload.requests
FieldLists == UNION {[1..k -> workload.fieldSet] : k \in 0..workload.maxFields}

\* ------------------------------------------------------------- upload

\* existsSync answering true for every path.
ExistsAlways(store, id) == TRUE

\* fs.existsSync(path).
Exists(store, id) == store[id] # Absent

\* WriteFile keeping a file that is already there.
WriteFileIfAbsent(store, id, bytes) ==
    IF store[id] = Absent THEN [store EXCEPT ![id] = bytes] ELSE store

\* fs.writeFileSync(path, bytes), when it returns.
WriteFile(store, id, bytes) == [store EXCEPT ![id] = bytes]

\* Date.now().toString().
NewPdfId == clock

\* The wall clock advances one millisecond.
Tick ==
    /\ clock < MaxClock
    /\ clock' = clock + 1
    /\ UNCHANGED <<workload, uploads, allocated, original, signed, lastWriter, audits, req, geo>>

\* POST /upload-pdf without a file: 400.
UploadNoFile ==
    /\ uploads < workload.uploads
    /\ uploads' = uploads + 1
    /\ UNCHANGED <<workload, clock, allocated, original, signed, lastWriter, audits, req, geo>>

\* POST /upload-pdf with a file: the buffer is stored under a new id, 200.
UploadPdf(buffer) ==
    /\ uploads < workload.uploads
    /\ uploads' = uploads + 1
    /\ original' = WriteFile(original, NewPdfId, buffer)
    /\ allocated' = [allocated EXCEPT ![NewPdfId] = Append(@, buffer)]
    /\ UNCHANGED <<workload, clock, signed, lastWriter, audits, req, geo>>

\* POST /upload-pdf with a file, fs.writeFileSync throwing before it wrote: 500.
UploadFails ==
    /\ uploads < workload.uploads
    /\ uploads' = uploads + 1
    /\ UNCHANGED <<workload, clock, allocated, original, signed, lastWriter, audits, req, geo>>

\* ----------------------------------------------------------- finalize

NoRect == [x |-> <<0, 0>>, y |-> <<0, 0>>, w |-> <<0, 0>>, h |-> <<0, 0>>]
NoDraw == [op |-> "none", text |-> "", x |-> <<0, 0>>, y |-> <<0, 0>>,
           width |-> <<0, 0>>, height |-> <<0, 0>>]

\* pages[field.page - 1] is a page.
InRange(field, pages) == field.page \in 1..Len(pages)

IsText(field) == field.type \in {"text", "date"} /\ field.value.text # ""
IsSignature(field) == field.type = "signature" /\ field.value.text # ""

\* embedJpg when the value includes "jpeg", embedPng otherwise, of the bytes
\* the value decodes to: the image, or a throw on bytes of another format.
Embed(value) ==
    LET want == IF value.mime = "jpeg" THEN "jpeg" ELSE "png"
    IN  [ok |-> value.data.fmt = want, img |-> value.data]

\* The fields of the requests: the box at (0.25, 0.25) of size 0.5 by 0.25, on
\* pages in and out of range, with text,
\* no text, a PNG image and undecodable bytes.
Box(page, type, value) == Field(page, type, value, <<1, -2>>, <<1, -2>>, <<1, -1>>, <<1, -2>>)
TextP1 == Box(1, "text", TextValue("Hello"))
SigPng == Box(1, "signature", DataUri("png", Image("png", 2, 1)))
SigBad == Box(1, "signature", DataUri("png", NoImage))
DateP2 == Box(2, "date", TextValue("2024-01-01"))
TextP0 == Box(0, "text", TextValue("zero"))
TextNeg == Box(-1, "text", TextValue("negative"))
EmptyP1 == Box(1, "text", TextValue(""))

ConcFieldSet == {TextP1, SigPng}
SeqFieldSet == {TextP1, SigPng, SigBad, DateP2, TextP0, TextNeg, EmptyP1}

\* What the loop body draws for a field on a page of each size, evaluated once
\* per field and size: the text or date, and the embedded image.
DrawnText ==
    [f \in SeqFieldSet \cup ConcFieldSet |->
        [p \in PageSizes |-> DrawText(f, Resolve(f, p.width, p.height))]]
DrawnImage ==
    [f \in SeqFieldSet \cup ConcFieldSet |->
        [p \in PageSizes |->
            IF Embed(f.value).ok
            THEN DrawImage(Resolve(f, p.width, p.height), Embed(f.value).img)
            ELSE NoDraw]]

\* A drawing operation on the field's page.
TextOverlay(field, pages) == [page |-> field.page, draw |-> DrawnText[field][pages[field.page]]]
ImageOverlay(field, pages) == [page |-> field.page, draw |-> DrawnImage[field][pages[field.page]]]

RECURSIVE RunLoopBreak(_, _, _)
\* RunLoop leaving the loop at a field whose page is out of range.
RunLoopBreak(fields, pages, i) ==
    IF i > Len(fields) THEN [pc |-> "save", ops |-> <<>>, idx |-> i]
    ELSE IF ~InRange(fields[i], pages) THEN [pc |-> "save", ops |-> <<>>, idx |-> i]
    ELSE IF IsText(fields[i])
        THEN [RunLoopBreak(fields, pages, i + 1) EXCEPT
                 !.ops = <<TextOverlay(fields[i], pages)>> \o @]
    ELSE IF IsSignature(fields[i]) THEN [pc |-> "embed", ops |-> <<>>, idx |-> i]
    ELSE RunLoopBreak(fields, pages, i + 1)

RECURSIVE RunLoop(_, _, _)
\* The field loop from field i on, up to its next await: the embedding of a
\* signature image ("embed", at field idx) or, after the last field, save().
\* ops are the drawing operations added on the way.
RunLoop(fields, pages, i) ==
    IF i > Len(fields) THEN [pc |-> "save", ops |-> <<>>, idx |-> i]
    ELSE IF ~InRange(fields[i], pages) THEN RunLoop(fields, pages, i + 1)
    ELSE IF IsText(fields[i])
        THEN [RunLoop(fields, pages, i + 1) EXCEPT
                 !.ops = <<TextOverlay(fields[i], pages)>> \o @]
    ELSE IF IsSignature(fields[i]) THEN [pc |-> "embed", ops |-> <<>>, idx |-> i]
    ELSE RunLoop(fields, pages, i + 1)

\* The catch block: 500, whatever was done before stays done.
Fail(q, cause) == [q EXCEPT !.pc = "done", !.status = 500, !.cause = cause]

\* AuditDoc with the two hashes in each other's place.
AuditDocSwapped(q) ==
    [pdfId |-> q.pdfId, originalHash |-> q.finalHash, finalHash |-> q.originalHash,
     createdAt |-> q.createdAt]

\* The document Audit.create is given.
AuditDoc(q) ==
    [pdfId |-> q.pdfId, originalHash |-> q.originalHash, finalHash |-> q.finalHash,
     createdAt |-> q.createdAt]

\* The body of the 200 response.
ResponseBody(q) == [originalHash |-> q.originalHash, finalHash |-> q.finalHash]

\* POST /finalize-pdf, up to the first await: 404 without a stored original,
\* else the original is read and hashed and PDFDocument.load begins.
StartFinalize(r, pdfId, fields) ==
    LET base == [IdleReq EXCEPT
                    !.pdfId = pdfId, !.fields = fields,
                    !.pre = [signed |-> signed[pdfId], audits |-> audits]]
    IN  /\ req[r].pc = "idle"
        /\ req' = [req EXCEPT ![r] =
                     IF ~Exists(original, pdfId)
                     THEN [base EXCEPT !.pc = "done", !.status = 404, !.cause = "notfound"]
                     ELSE [base EXCEPT !.pc = "load",
                                       !.originalBytes = original[pdfId],
                                       !.originalHash = sha256(original[pdfId])]]
        /\ UNCHANGED <<workload, clock, uploads, allocated, original, signed, lastWriter, audits, geo>>

\* PDFDocument.load settles: a throw on bytes that are no PDF, else the pages,
\* and the field loop runs to its first await.
LoadDone(r) ==
    /\ req[r].pc = "load"
    /\ LET q == req[r]
           l == RunLoop(q.fields, q.originalBytes.pages, 1)
       IN  req' = [req EXCEPT ![r] =
                     IF ~q.originalBytes.valid THEN Fail(q, "parse")
                     ELSE [q EXCEPT !.pc = l.pc, !.pages = q.originalBytes.pages,
                                    !.ops = l.ops, !.idx = l.idx]]
    /\ UNCHANGED <<workload, clock, uploads, allocated, original, signed, lastWriter, audits, geo>>

\* EmbedDone catching the throw inside the loop: the field is left out and the
\* loop goes on.
EmbedDoneSwallow(r) ==
    /\ req[r].pc = "embed"
    /\ LET q == req[r]
           f == q.fields[q.idx]
           e == Embed(f.value)
           l == RunLoop(q.fields, q.pages, q.idx + 1)
       IN  req' = [req EXCEPT ![r] =
                     [q EXCEPT !.pc = l.pc, !.idx = l.idx,
                               !.ops = (IF e.ok THEN Append(q.ops, ImageOverlay(f, q.pages))
                                        ELSE q.ops) \o l.ops]]
    /\ UNCHANGED <<workload, clock, uploads, allocated, original, signed, lastWriter, audits, geo>>

\* embedJpg / embedPng settles: a throw on undecodable bytes, else the image is
\* drawn and the loop runs on to its next await.
EmbedDone(r) ==
    /\ req[r].pc = "embed"
    /\ LET q == req[r]
           f == q.fields[q.idx]
           e == Embed(f.value)
           l == RunLoop(q.fields, q.pages, q.idx + 1)
       IN  req' = [req EXCEPT ![r] =
                     IF ~e.ok THEN Fail(q, "decode")
                     ELSE [q EXCEPT !.pc = l.pc, !.ops = Append(q.ops, ImageOverlay(f, q.pages)) \o l.ops,
                                    !.idx = l.idx]]
    /\ UNCHANGED <<workload, clock, uploads, allocated, original, signed, lastWriter, audits, geo>>

\* pdfDoc.save() settles with the bytes: they are hashed and written to the
\* signed file, and Audit.create begins.
SaveDone(r) ==
    /\ req[r].pc = "save"
    /\ LET q == req[r]
           finalPdf == Serialize(q.originalBytes, q.ops)
       IN  /\ signed' = WriteFile(signed, q.pdfId, finalPdf)
           /\ req' = [req EXCEPT ![r] =
                        [q EXCEPT !.pc = "audit", !.finalPdf = finalPdf,
                                  !.finalHash = sha256(finalPdf),
                                  !.createdAt = clock, !.wrote = TRUE]]
    /\ lastWriter' = [lastWriter EXCEPT ![req[r].pdfId] = r]
    /\ UNCHANGED <<workload, clock, uploads, allocated, original, audits, geo>>

\* pdfDoc.save() rejects.
SaveFails(r) ==
    /\ req[r].pc = "save"
    /\ req' = [req EXCEPT ![r] = Fail(req[r], "save")]
    /\ UNCHANGED <<workload, clock, uploads, allocated, original, signed, lastWriter, audits, geo>>

\* pdfDoc.save() settles with the bytes and fs.writeFileSync throws before it
\* wrote.
WriteFails(r) ==
    /\ req[r].pc = "save"
    /\ LET finalPdf == Serialize(req[r].originalBytes, req[r].ops)
       IN  req' = [req EXCEPT ![r] =
                     Fail([req[r] EXCEPT !.finalPdf = finalPdf, !.finalHash = sha256(finalPdf)],
                          "write")]
    /\ UNCHANGED <<workload, clock, uploads, allocated, original, signed, lastWriter, audits, geo>>

\* Audit.create resolves: the record is in the collection, 200.
AuditDone(r) ==
    /\ req[r].pc = "audit"
    /\ audits' = Append(audits, AuditDoc(req[r]))
    /\ req' = [req EXCEPT ![r] =
                 [req[r] EXCEPT !.pc = "done", !.status = 200, !.body = ResponseBody(req[r]),
                                !.auditId = Len(audits) + 1]]
    /\ UNCHANGED <<workload, clock, uploads, allocated, original, signed, lastWriter, geo>>

\* Audit.create rejects: 500.
AuditFails(r) ==
    /\ req[r].pc = "audit"
    /\ req' = [req EXCEPT ![r] = Fail(req[r], "audit")]
    /\ UNCHANGED <<workload, clock, uploads, allocated, original, signed, lastWriter, audits, geo>>

\* ------------------------------------------------------- geometry steps

GeoOff == [stage |-> "off", field |-> Field(1, "text", TextValue(""), <<0, 0>>, <<0, 0>>, <<0, 0>>, <<0, 0>>),
           page |-> PageSize(1, 1), rect |-> NoRect, draw |-> NoDraw]

\* const {width, height} = page.getSize() and the four products.
GeomResolve ==
    /\ geo.stage = "field"
    /\ geo' = [geo EXCEPT !.stage = "rect",
                          !.rect = Resolve(geo.field, geo.page.width, geo.page.height)]
    /\ UNCHANGED server

\* The text / date branch of the loop body.
GeomDrawText ==
    /\ geo.stage = "rect"
    /\ IsText(geo.field)
    /\ geo' = [geo EXCEPT !.stage = "drawn", !.draw = DrawText(geo.field, geo.rect)]
    /\ UNCHANGED server

\* The signature branch of the loop body, the image decoding.
GeomDrawImage ==
    /\ geo.stage = "rect"
    /\ IsSignature(geo.field)
    /\ Embed(geo.field.value).ok
    /\ geo' = [geo EXCEPT !.stage = "drawn",
                          !.draw = DrawImage(geo.rect, Embed(geo.field.value).img)]
    /\ UNCHANGED server

\* ------------------------------------------------------- specifications

\* The fields and pages the geometry is put through.
GeomValues ==
    {TextValue("Hello")}
    \cup {DataUri("png", Image("png", w, h)) : w \in 1..MaxImg, h \in 1..MaxImg}
GeomFields ==
    {Field(1, IF v.mime = "none" THEN "text" ELSE "signature", v, xr, yr, wr, hr) :
        v \in GeomValues, xr \in RatioSet, yr \in RatioSet, wr \in RatioSet, hr \in RatioSet}

InitServer(w) ==
    /\ workload = w
    /\ clock = 0
    /\ uploads = 0
    /\ allocated = [id \in PdfIds |-> <<>>]
    /\ original = [id \in PdfIds |-> Absent]
    /\ signed = [id \in PdfIds |-> Absent]
    /\ lastWriter = [id \in PdfIds |-> 0]
    /\ audits = <<>>
    /\ req = [r \in 1..w.requests |-> IdleReq]

\* Concurrent requests with short field lists.
Init ==
    /\ InitServer([requests |-> NumReq, maxFields |-> ConcFields, fieldSet |-> ConcFieldSet,
                   uploads |-> MaxUploads, buffers |-> Buffers])
    /\ geo = GeoOff

\* One request with long field lists.
InitSeq ==
    /\ InitServer([requests |-> 1, maxFields |-> SeqFields, fieldSet |-> SeqFieldSet,
                   uploads |-> 1, buffers |-> Buffers])
    /\ geo = GeoOff

\* The geometry alone, of every field and page.
InitGeom ==
    /\ InitServer([requests |-> 0, maxFields |-> 0, fieldSet |-> {}, uploads |-> 0,
                   buffers |-> {}])
    /\ geo \in {[GeoOff EXCEPT !.stage = "field", !.field = f, !.page = p] :
                   f \in GeomFields, p \in PageSizes}

Next ==
    \/ Tick
    \/ UploadNoFile
    \/ \E buffer \in workload.buffers : UploadPdf(buffer)
    \/ UploadFails
    \/ \E r \in Requests :
        \/ \E pdfId \in PdfIds, fields \in FieldLists : StartFinalize(r, pdfId, fields)
        \/ LoadDone(r)
        \/ EmbedDone(r)
        \/ SaveDone(r)
        \/ SaveFails(r)
        \/ WriteFails(r)
        \/ AuditDone(r)
        \/ AuditFails(r)

NextGeom == GeomResolve \/ GeomDrawText \/ GeomDrawImage

Spec == Init /\ [][Next]_vars
SpecSeq == InitSeq /\ [][Next]_vars
SpecGeom == InitGeom /\ [][NextGeom]_vars

\* ------------------------------------------------- geometry: C9 and C10

\* The unit roundoff 2^-Prec, and the numbers 0 and 1 + 3 * 2^-Prec.
UnitRoundoff == <<1, Pow2(Prec)>>
RZero == <<0, 1>>
ROnePlus3U == <<Pow2(Prec) + 3, Pow2(Prec)>>
FieldTypes == {"text", "date", "signature"}

\* The rectangle is the four expressions of the resolver, whatever the type.
RectIsResolved ==
    LET f == geo.field
        W == geo.page.width
        H == geo.page.height
    IN  /\ geo.rect.x = FMul(f.xRatio, W)
        /\ geo.rect.y = FSub(FSub(H, FMul(f.yRatio, H)), FMul(f.hRatio, H))
        /\ geo.rect.w = FMul(f.wRatio, W)
        /\ geo.rect.h = FMul(f.hRatio, H)
        /\ \A t \in FieldTypes : Resolve([f EXCEPT !.type = t], W, H) = geo.rect

\* yRatio + hRatio <= 1, of the ratios as real numbers.
FitsVertically == RLeq(RAdd(RatOf(geo.field.yRatio), RatOf(geo.field.hRatio)), <<1, 1>>)

\* C9 as stated: for all ratios in [0, 1] and every page size the rectangle is
\* x = xRatio*pageWidth, y = pageHeight - yRatio*pageHeight - hRatio*pageHeight,
\* w = wRatio*pageWidth, h = hRatio*pageHeight for every field type, and
\* 0 <= y <= pageHeight whenever yRatio + hRatio <= 1.
C9_RectInPage ==
    geo.stage \in {"rect", "drawn"} =>
        /\ RectIsResolved
        /\ FitsVertically =>
            /\ RLeq(RZero, RatOf(geo.rect.y))
            /\ RLeq(RatOf(geo.rect.y), RatOf(geo.page.height))

\* C9 as amended: the rectangle is those four expressions in the program's
\* rounded arithmetic, for every field type, and whenever yRatio + hRatio <= 1
\* it has -3 * 2^-Prec * pageHeight <= y <= pageHeight: y may fall below 0 by
\* the rounding of the two products and the two subtractions.
C9_RectWithinRounding ==
    geo.stage \in {"rect", "drawn"} =>
        /\ RectIsResolved
        /\ FitsVertically =>
            /\ RLeq(RMul(<<-3, 1>>, RMul(UnitRoundoff, RatOf(geo.page.height))),
                    RatOf(geo.rect.y))
            /\ RLeq(RatOf(geo.rect.y), RatOf(geo.page.height))

\* A resolved rectangle of a box reaching the bottom of the page whose y is
\* below 0.
C9_Witness ==
    /\ geo.stage = "rect"
    /\ FitsVertically
    /\ RLt(RatOf(geo.rect.y), RZero)

\* The drawn image is the embedded image at one scale, centred in the rectangle.
ImageIsFitted ==
    LET img == Embed(geo.field.value).img
        scale == FMin(FDiv(geo.rect.w, FInt(img.width)), FDiv(geo.rect.h, FInt(img.height)))
        d == geo.draw
    IN  /\ d.width = FMul(FInt(img.width), scale)
        /\ d.height = FMul(FInt(img.height), scale)
        /\ d.x = FAdd(geo.rect.x, FDiv(FSub(geo.rect.w, d.width), FInt(2)))
        /\ d.y = FAdd(geo.rect.y, FDiv(FSub(geo.rect.h, d.height), FInt(2)))

\* drawW * imgHeight and drawH * imgWidth.
CrossW == RMul(RatOf(geo.draw.width), <<Embed(geo.field.value).img.height, 1>>)
CrossH == RMul(RatOf(geo.draw.height), <<Embed(geo.field.value).img.width, 1>>)

\* C10 as stated: the drawn image uses the single scale min(rect.w/imgWidth,
\* rect.h/imgHeight), so drawW <= rect.w, drawH <= rect.h and
\* drawW*imgHeight = drawH*imgWidth, and it is centred in the rectangle.
C10_AspectFitExact ==
    (geo.stage = "drawn" /\ geo.draw.op = "image") =>
        /\ ImageIsFitted
        /\ RLeq(RatOf(geo.draw.width), RatOf(geo.rect.w))
        /\ RLeq(RatOf(geo.draw.height), RatOf(geo.rect.h))
        /\ REq(CrossW, CrossH)

\* C10 as amended: the drawn image uses that single scale and is centred, in
\* the program's rounded arithmetic, and drawW <= rect.w * (1 + 3 * 2^-Prec),
\* drawH <= rect.h * (1 + 3 * 2^-Prec) and drawW*imgHeight and drawH*imgWidth
\* differ by at most 3 * 2^-Prec of the smaller.
C10_AspectFitWithinRounding ==
    (geo.stage = "drawn" /\ geo.draw.op = "image") =>
        /\ ImageIsFitted
        /\ RLeq(RatOf(geo.draw.width), RMul(ROnePlus3U, RatOf(geo.rect.w)))
        /\ RLeq(RatOf(geo.draw.height), RMul(ROnePlus3U, RatOf(geo.rect.h)))
        /\ RLeq(CrossW, RMul(ROnePlus3U, CrossH))
        /\ RLeq(CrossH, RMul(ROnePlus3U, CrossW))

\* A drawn image wider or taller than its rectangle.
C10_Witness ==
    /\ geo.stage = "drawn"
    /\ geo.draw.op = "image"
    /\ \/ RLt(RatOf(geo.rect.w), RatOf(geo.draw.width))
       \/ RLt(RatOf(geo.rect.h), RatOf(geo.draw.height))

\* ------------------------------------------------- finalize: C1 to C8

Done(q) == q.pc = "done"
Succeeded(q) == q.pc = "done" /\ q.status = 200
Failed(q) == q.pc = "done" /\ q.status = 500

\* No other request has been received: the call ran alone.
OnlyCall(r) == \A o \in Requests \ {r} : req[o].pc = "idle"

\* The signed file of the call's document and the collection are as the call
\* found them.
StoresAsFound(r) ==
    /\ signed[req[r].pdfId] = req[r].pre.signed
    /\ audits = req[r].pre.audits

\* C1: a finalize call that fails at any step (lookup, parse, render,
\* serialize, write of the finalized file, append of the audit record) leaves
\* the finalized file of its document and the audit store as they were before
\* the call; a failed append never leaves a finalized file without its record.
C1_FailAtomic ==
    \A r \in Requests :
        (Done(req[r]) /\ req[r].status # 200 /\ OnlyCall(r)) => StoresAsFound(r)

\* Some field in range is a signature whose bytes do not decode.
HasBadSignature(fields, pages) ==
    \E i \in 1..Len(fields) :
        InRange(fields[i], pages) /\ IsSignature(fields[i]) /\ ~Embed(fields[i].value).ok

\* C2: a finalize call on a stored PDF in which the rendering of some field
\* raises a decode error reports failure, writes no finalized file and creates
\* no audit record, whatever was drawn before that field.
C2_DecodeFailureAtomic ==
    \A r \in Requests :
        (Done(req[r]) /\ req[r].originalBytes.valid
            /\ HasBadSignature(req[r].fields, req[r].originalBytes.pages)) =>
            /\ req[r].status = 500
            /\ req[r].cause = "decode"
            /\ ~req[r].wrote
            /\ req[r].auditId = 0
            /\ OnlyCall(r) => StoresAsFound(r)

\* The decode error is raised by field 2 of 3, field 1 being drawn already.
C2_Witness ==
    \E r \in Requests :
        /\ Failed(req[r])
        /\ req[r].cause = "decode"
        /\ req[r].idx = 2
        /\ Len(req[r].fields) = 3
        /\ Len(req[r].ops) = 1

\* C3: the audit record of a successful finalize call carries the call's
\* documentId, the digest of the stored original bytes the call read and the
\* digest of the bytes the call wrote to the finalized file; the response
\* carries the record's two hashes; every record is the record of such a call.
C3_AuditMatchesCall ==
    /\ \A r \in Requests :
        Succeeded(req[r]) =>
            /\ req[r].auditId \in 1..Len(audits)
            /\ req[r].originalBytes.kind = "upload"
            /\ req[r].wrote
            /\ audits[req[r].auditId].pdfId = req[r].pdfId
            /\ audits[req[r].auditId].originalHash = sha256(req[r].originalBytes)
            /\ audits[req[r].auditId].finalHash = sha256(req[r].finalPdf)
            /\ lastWriter[req[r].pdfId] = r =>
                sha256(signed[req[r].pdfId]) = audits[req[r].auditId].finalHash
            /\ req[r].body.originalHash = audits[req[r].auditId].originalHash
            /\ req[r].body.finalHash = audits[req[r].auditId].finalHash
    /\ \A i \in 1..Len(audits) :
        \E r \in Requests : Succeeded(req[r]) /\ req[r].auditId = i

\* A successful call that drew something.
C3_Witness ==
    \E r \in Requests : Succeeded(req[r]) /\ Len(req[r].ops) = 1

\* C4: the audit store is append-only with one record per finalize: no step
\* changes or removes a record, each successful finalize adds exactly one, and
\* the records of one documentId share the same originalHash.
C4_AppendOnlyOnePerFinalize ==
    [][/\ Len(audits') >= Len(audits)
       /\ SubSeq(audits', 1, Len(audits)) = audits
       /\ Len(audits') - Len(audits) =
            Cardinality({r \in Requests : Succeeded(req'[r]) /\ ~Succeeded(req[r])})
       /\ \A i, j \in 1..Len(audits') :
            audits'[i].pdfId = audits'[j].pdfId =>
                audits'[i].originalHash = audits'[j].originalHash]_vars

\* C5: of the finalize requests of one documentId, run one after the other or
\* interleaved at their awaits, each that succeeds has a record of its own,
\* and the finalized file is at every moment the complete output of the
\* request that wrote it last, whose digest is the finalHash of that
\* request's record once it has one.
C5_LastWriteWins ==
    /\ \A id \in PdfIds :
        /\ lastWriter[id] = 0 => signed[id] = Absent
        /\ lastWriter[id] # 0 =>
            /\ req[lastWriter[id]].pdfId = id
            /\ signed[id] = req[lastWriter[id]].finalPdf
            /\ signed[id] = Serialize(req[lastWriter[id]].originalBytes, req[lastWriter[id]].ops)
            /\ Succeeded(req[lastWriter[id]]) =>
                sha256(signed[id]) = audits[req[lastWriter[id]].auditId].finalHash
        /\ Cardinality({i \in 1..Len(audits) : audits[i].pdfId = id})
            = Cardinality({r \in Requests : Succeeded(req[r]) /\ req[r].pdfId = id})
    /\ \A r, o \in Requests :
        (r # o /\ Succeeded(req[r]) /\ Succeeded(req[o])) => req[r].auditId # req[o].auditId

\* Two requests of one document have both succeeded with different outputs,
\* and they were interleaved: the one that wrote last was recorded first.
C5_Witness ==
    \E r, o \in Requests :
        /\ Succeeded(req[r]) /\ Succeeded(req[o])
        /\ req[r].pdfId = req[o].pdfId
        /\ req[r].finalPdf # req[o].finalPdf
        /\ lastWriter[req[r].pdfId] = r
        /\ req[r].auditId < req[o].auditId

\* What the loop body does for one field whose page is in range.
Render(field, pages) ==
    IF IsText(field) THEN <<TextOverlay(field, pages)>>
    ELSE IF IsSignature(field) THEN <<ImageOverlay(field, pages)>>
    ELSE <<>>

RECURSIVE RenderAll(_, _)
RenderAll(fields, pages) ==
    IF fields = <<>> THEN <<>>
    ELSE Render(Head(fields), pages) \o RenderAll(Tail(fields), pages)

\* The input list restricted to the fields whose page exists, rendered in order.
Expected(fields, pages) ==
    RenderAll(SelectSeq(fields, LAMBDA f : InRange(f, pages)), pages)

\* C6: the overlays applied are the input list restricted to the fields whose
\* page exists, each rendered, in input order, at every await of the loop and
\* after it; a field whose page is out of range raises nothing.
C6_OverlaysAreInRangeFieldsInOrder ==
    \A r \in Requests :
        LET q == req[r] IN
        /\ q.pc \in {"save", "audit"} => q.ops = Expected(q.fields, q.pages)
        /\ (Done(q) /\ q.cause \in {"", "save", "write", "audit"}) =>
            q.ops = Expected(q.fields, q.pages)
        /\ (q.pc = "embed" \/ (Done(q) /\ q.cause = "decode")) =>
            /\ q.ops = Expected(SubSeq(q.fields, 1, q.idx - 1), q.pages)
            /\ InRange(q.fields[q.idx], q.pages)
        /\ (Done(q) /\ q.originalBytes.valid
                /\ ~HasBadSignature(q.fields, q.originalBytes.pages)) =>
            q.cause \in {"", "save", "write", "audit"}

\* A successful call of three fields, the second out of range, the first and
\* the third drawn.
C6_Witness ==
    \E r \in Requests :
        /\ Succeeded(req[r])
        /\ Len(req[r].fields) = 3
        /\ ~InRange(req[r].fields[2], req[r].pages)
        /\ Len(req[r].ops) = 2
        /\ req[r].ops[2].draw.op = "image"

\* C7: a finalize call whose documentId has no stored original answers 404 at
\* once and changes no stored original, no finalized file and no audit record.
C7_NotFoundNoSideEffects ==
    [][\A r \in Requests :
        (req[r].pc = "idle" /\ req'[r].pc # "idle") =>
            /\ original[req'[r].pdfId] = Absent <=> req'[r].status = 404
            /\ original[req'[r].pdfId] = Absent =>
                /\ Done(req'[r])
                /\ ~req'[r].wrote
                /\ req'[r].auditId = 0
                /\ original' = original
                /\ signed' = signed
                /\ audits' = audits]_vars

\* A call answered 404 while another document is stored.
C7_Witness ==
    \E r \in Requests :
        /\ req[r].status = 404
        /\ \E id \in PdfIds : original[id] # Absent

\* C8: every upload is given a documentId no upload was given before, and the
\* original stored under a documentId is the buffer of the upload that
\* created it.
C8_WriteOnceFreshIds ==
    \A id \in PdfIds :
        /\ Len(allocated[id]) <= 1
        /\ allocated[id] # <<>> => original[id] = allocated[id][1]

====
